---- MODULE Spec2Model ----
(***************************************************************************)
(* A model of create_db_stable_imagenet-1k.cpp: the directory scan, the    *)
(* per-image ingestion loop with its cooperative cancellation flag, the    *)
(* serialization of the dataset, the load-and-split step and main's exit   *)
(* codes.                                                                  *)
(*                                                                         *)
(* Strings are tuples of one-character strings, ordered by byte value.     *)
(* Doubles are IEEE binary64 values m * 2^e, the significand m a natural   *)
(* number kept as little-endian limbs.                                     *)
(***************************************************************************)
EXTENDS Integers, Sequences, FiniteSets

VARIABLES
    argc,               \* main's argument count
    argv3,              \* argv[3], the image size as typed
    root_exists,        \* whether argv[1] names a directory
    tree,               \* the class subdirectories, in the order get_dirs() returns them
    file,               \* the output file: [exists, data]
    g_terminate_flag,   \* the cancellation flag
    handler_installed,  \* setup_interrupt_handler() has run
    pc,                 \* main thread's position
    exc,                \* the exception in flight or caught, "none" when there is none
    exit_code,          \* main's return value, -1 while running
    image_size,         \* stol(argv[3])
    image_listing,      \* create_imagenet_dataset's listing
    i,                  \* the per-image loop's index
    img,                \* the image loaded by the iteration in progress
    dataset,            \* the imagenet_dataset under construction, then the one read back
    test_fraction,      \* load_stable_imagenet_1k's test_fraction, <<num, den>>
    indices,            \* the shuffled permutation
    split_point,
    training_images,
    training_labels,
    testing_images,
    testing_labels

vars == <<argc, argv3, root_exists, tree, file, g_terminate_flag, handler_installed,
          pc, exc, exit_code, image_size, image_listing, i, img, dataset,
          test_fraction, indices, split_point,
          training_images, training_labels, testing_images, testing_labels>>

(***************************************************************************)
(* Bounds of the model.                                                    *)
(***************************************************************************)
\* files in the whole directory tree (Spec)
MaxFiles == 3
\* samples in a dataset file handed to load_stable_imagenet_1k (LoadSpec)
MaxN == 5
\* bits in one limb of a significand; the values computed do not depend on it
LimbBits == 15

(***************************************************************************)
(* Strings.                                                                *)
(***************************************************************************)
CharCode(c) ==
    CASE c = "." -> 46
      [] c = "4" -> 52
      [] c = "6" -> 54
      [] c = "8" -> 56
      [] c = "B" -> 66
      [] c = "G" -> 71
      [] c = "J" -> 74
      [] c = "P" -> 80
      [] c = "_" -> 95
      [] c = "a" -> 97
      [] c = "b" -> 98
      [] c = "c" -> 99
      [] c = "d" -> 100
      [] c = "g" -> 103
      [] c = "j" -> 106
      [] c = "p" -> 112
      [] c = "t" -> 116
      [] c = "x" -> 120
      [] c = "z" -> 122

\* std::string's operator<
StrLess(a, b) ==
    \E k \in 1..(Len(b)) :
        /\ \A j \in 1..(k - 1) : j <= Len(a) /\ a[j] = b[j]
        /\ \/ k = Len(a) + 1
           \/ k <= Len(a) /\ CharCode(a[k]) < CharCode(b[k])

ToLowerChar(c) ==
    CASE c = "B" -> "b"
      [] c = "G" -> "g"
      [] c = "J" -> "j"
      [] c = "P" -> "p"
      [] OTHER -> c

tolower(s) == [k \in 1..Len(s) |-> ToLowerChar(s[k])]

\* s.find('_'), 0-based, -1 standing for npos
FindUnderscore(s) ==
    IF \E k \in 1..Len(s) : s[k] = "_"
    THEN (CHOOSE k \in 1..Len(s) : s[k] = "_" /\ \A j \in 1..(k - 1) : s[j] # "_") - 1
    ELSE -1

\* npos + 1 wraps to 0, so a name without '_' is returned whole
extract_desc_class(dir_name) ==
    SubSeq(dir_name, FindUnderscore(dir_name) + 2, Len(dir_name))

IsDigit(c) == c \in {"4", "6", "8"}

DigitValue(c) == CharCode(c) - 48

RECURSIVE DigitsValue(_, _)
DigitsValue(s, acc) ==
    IF s = <<>> \/ ~IsDigit(Head(s)) THEN acc
    ELSE DigitsValue(Tail(s), 10 * acc + DigitValue(Head(s)))

\* std::stol: the leading digits, invalid_argument (-1 here) when there are none
stol(s) == IF s = <<>> \/ ~IsDigit(Head(s)) THEN -1 ELSE DigitsValue(s, 0)

(***************************************************************************)
(* The directory tree handed to the scanner.  A tree is a sequence of      *)
(* class subdirectories [name, files]; a file is [name, valid], valid      *)
(* telling whether load_image can decode it.                               *)
(***************************************************************************)
DirNames == {<<"B", "_", "z">>, <<"a", "_", "x">>, <<"a", "b">>}

FileKinds == {"valid", "corrupt", "other"}

Letters == <<"a", "b", "c", "d">>

\* the p-th file of a directory: x.jpg, x.JPG or x.txt
FileOfKind(kind, p) ==
    [name  |-> <<Letters[p]>> \o
               (IF kind = "other" THEN <<".", "t", "x", "t">>
                ELSE IF p % 2 = 1 THEN <<".", "j", "p", "g">>
                ELSE <<".", "J", "P", "G">>),
     valid |-> kind = "valid"]

RECURSIVE SumTo(_, _)
SumTo(counts, k) == IF k = 0 THEN 0 ELSE counts[k] + SumTo(counts, k - 1)

\* the tree with subdirectories order[1], order[2], ..., the k-th holding counts[k]
\* files whose kinds are the next counts[k] entries of kinds
MakeTree(order, counts, kinds) ==
    [k \in 1..Len(order) |->
        [name  |-> order[k],
         files |-> [p \in 1..counts[k] |->
                        FileOfKind(kinds[SumTo(counts, k - 1) + p], p)]]]

DirOrders ==
    {o \in UNION {[1..d -> DirNames] : d \in 0..Cardinality(DirNames)} :
        \A j, k \in 1..Len(o) : j # k => o[j] # o[k]}

(***************************************************************************)
(* Directory scanner.                                                      *)
(***************************************************************************)
\* where std::sort's comparator a.name() < b.name() puts d among the sorted s
InsertDir(d, s) ==
    LET k == Cardinality({j \in 1..Len(s) : StrLess(s[j].name, d.name)})
    IN  SubSeq(s, 1, k) \o <<d>> \o SubSeq(s, k + 1, Len(s))

RECURSIVE SortDirs(_)
SortDirs(dirs) ==
    IF dirs = <<>> THEN <<>> ELSE InsertDir(Head(dirs), SortDirs(Tail(dirs)))

IsJpg(name) ==
    /\ Len(name) > 4
    /\ tolower(SubSeq(name, Len(name) - 3, Len(name))) = <<".", "j", "p", "g">>

\* the records of one class directory, all with the counter's current value
RECURSIVE DirRecords(_, _, _)
DirRecords(subdir, files, numeric_label) ==
    IF files = <<>> THEN <<>>
    ELSE (IF IsJpg(Head(files).name)
          THEN <<[filename      |-> <<subdir.name, Head(files).name>>,
                  label         |-> extract_desc_class(subdir.name),
                  numeric_label |-> numeric_label]>>
          ELSE <<>>)
         \o DirRecords(subdir, Tail(files), numeric_label)

\* a scan that advances the counter only past directories that hold an image
RECURSIVE ListDirsSkipEmpty(_, _)
ListDirsSkipEmpty(subdirs, numeric_label) ==
    IF subdirs = <<>> THEN <<>>
    ELSE LET recs == DirRecords(Head(subdirs), Head(subdirs).files, numeric_label)
         IN  recs \o ListDirsSkipEmpty(Tail(subdirs),
                        IF recs = <<>> THEN numeric_label ELSE numeric_label + 1)

RECURSIVE ListDirs(_, _)
ListDirs(subdirs, numeric_label) ==
    IF subdirs = <<>> THEN <<>>
    ELSE DirRecords(Head(subdirs), Head(subdirs).files, numeric_label)
         \o ListDirs(Tail(subdirs), numeric_label + 1)

get_imagenet_listing(dirs) == ListDirs(SortDirs(dirs), 0)

(***************************************************************************)
(* Image loader.                                                           *)
(***************************************************************************)
NoImage == [src |-> <<>>, nr |-> 0, nc |-> 0]

\* whether load_image decodes the file at path filename = <<directory, file>>
Decodable(dirs, filename) ==
    \E k \in 1..Len(dirs) :
        /\ dirs[k].name = filename[1]
        /\ \E p \in 1..Len(dirs[k].files) :
               dirs[k].files[p].name = filename[2] /\ dirs[k].files[p].valid

\* the matrix returned for a decodable file: its pixels at rows x cols
load_and_resize_image(filename, rows, cols) ==
    [src |-> filename, nr |-> rows, nc |-> cols]

(***************************************************************************)
(* Serialization: a vector is written as its length, then its items.       *)
(***************************************************************************)
EmptyDataset == [images |-> <<>>, labels |-> <<>>, numeric_labels |-> <<>>]

SerializeImages(v) == <<[len |-> Len(v)]>> \o [k \in 1..Len(v) |-> [image |-> v[k]]]

SerializeStrings(v) == <<[len |-> Len(v)]>> \o [k \in 1..Len(v) |-> [str |-> v[k]]]

SerializeNumbers(v) == <<[len |-> Len(v)]>> \o [k \in 1..Len(v) |-> [num |-> v[k]]]

\* serialize(output_file) << images << labels << numeric_labels
Serialize(d) ==
    SerializeImages(d.images) \o SerializeStrings(d.labels)
        \o SerializeNumbers(d.numeric_labels)

\* one vector read from the head of stream, its items being records with field
ReadVector(stream, field) ==
    IF stream = <<>> \/ DOMAIN Head(stream) # {"len"}
    THEN [ok |-> FALSE, items |-> <<>>, rest |-> <<>>]
    ELSE LET n == Head(stream).len
         IN  IF Len(stream) - 1 < n
                \/ \E k \in 2..(n + 1) : DOMAIN stream[k] # {field}
             THEN [ok |-> FALSE, items |-> <<>>, rest |-> <<>>]
             ELSE [ok    |-> TRUE,
                   items |-> [k \in 1..n |-> stream[k + 1][field]],
                   rest  |-> SubSeq(stream, n + 2, Len(stream))]

\* deserialize(dataset_file) >> images >> labels >> numeric_labels
Deserialize(f) ==
    LET r1 == ReadVector(f.data, "image")
        r2 == ReadVector(r1.rest, "str")
        r3 == ReadVector(r2.rest, "num")
    IN  [ok |-> f.exists /\ r1.ok /\ r2.ok /\ r3.ok,
         dataset |-> [images |-> r1.items, labels |-> r2.items,
                      numeric_labels |-> r3.items]]

(***************************************************************************)
(* IEEE binary64 arithmetic, as far as split_point needs it.  A double is  *)
(* [m, e], standing for m * 2^e; m is a natural number of at most 53 bits, *)
(* a little-endian sequence of limbs without leading zero limbs.           *)
(***************************************************************************)
MantissaBits == 53

Base == 2^LimbBits

Limb(x, j) == IF j >= 1 /\ j <= Len(x) THEN x[j] ELSE 0

Trim(x) ==
    LET nz == {j \in 1..Len(x) : x[j] # 0}
    IN  IF nz = {} THEN <<>>
        ELSE SubSeq(x, 1, CHOOSE j \in nz : \A k \in nz : k <= j)

SmallBitLen(v) == CHOOSE k \in 0..LimbBits : v < 2^k /\ (k = 0 \/ v >= 2^(k - 1))

BitLen(x) == IF x = <<>> THEN 0 ELSE LimbBits * (Len(x) - 1) + SmallBitLen(x[Len(x)])

Bit(x, j) == (Limb(x, (j \div LimbBits) + 1) \div 2^(j % LimbBits)) % 2

\* floor(x / 2^k)
ShiftRight(x, k) ==
    LET q == k \div LimbBits
        r == k % LimbBits
    IN  Trim([j \in 1..Len(x) |->
                (Limb(x, q + j) \div 2^r) + (Limb(x, q + j + 1) % 2^r) * 2^(LimbBits - r)])

\* x + 1
Inc(x) ==
    LET carry(j) == \A k \in 1..(j - 1) : Limb(x, k) = Base - 1
    IN  Trim([j \in 1..(Len(x) + 1) |->
                IF carry(j) THEN (Limb(x, j) + 1) % Base ELSE Limb(x, j)])

RECURSIVE MulLimbs(_, _, _, _)
MulLimbs(x, n, j, carry) ==
    IF j > Len(x) THEN <<carry>>
    ELSE LET p == x[j] * n + carry
         IN  <<p % Base>> \o MulLimbs(x, n, j + 1, p \div Base)

\* x * n for a small n
MulSmall(x, n) == Trim(MulLimbs(x, n, 1, 0))

RECURSIVE SubLimbs(_, _, _, _)
SubLimbs(a, b, j, borrow) ==
    IF j > Len(a) THEN <<>>
    ELSE LET d == a[j] - Limb(b, j) - borrow
         IN  <<d % Base>> \o SubLimbs(a, b, j + 1, IF d < 0 THEN 1 ELSE 0)

\* a - b, a >= b
Sub(a, b) == Trim(SubLimbs(a, b, 1, 0))

\* 2^k
PowerOfTwo(k) ==
    [j \in 1..((k \div LimbBits) + 1) |->
        IF j = (k \div LimbBits) + 1 THEN 2^(k % LimbBits) ELSE 0]

\* M * 2^e rounded to a 53-bit significand, to nearest, ties to even
RoundNearestEven(M, e) ==
    LET k == BitLen(M) - MantissaBits
    IN  IF k <= 0 THEN [m |-> M, e |-> e]
        ELSE LET q      == ShiftRight(M, k)
                 half   == Bit(M, k - 1) = 1
                 sticky == \E j \in 0..(k - 2) : Bit(M, j) = 1
                 up     == half /\ (sticky \/ Bit(q, 0) = 1)
                 q2     == IF up THEN Inc(q) ELSE q
             IN  IF BitLen(q2) > MantissaBits
                 THEN [m |-> ShiftRight(q2, 1), e |-> e + k + 1]
                 ELSE [m |-> q2, e |-> e + k]

RECURSIVE Scale(_, _)
Scale(num, den) == IF num >= den THEN 0 ELSE 1 + Scale(2 * num, den)

\* floor(r * Base^c / den) as c limbs, and what remains
RECURSIVE DivLimbs(_, _, _)
DivLimbs(r, den, c) ==
    IF c = 0 THEN [q |-> <<>>, rem |-> r]
    ELSE LET d == DivLimbs((r * Base) % den, den, c - 1)
         IN  [q |-> d.q \o <<(r * Base) \div den>>, rem |-> d.rem]

\* the double a decimal literal num/den denotes, 0 <= num <= den: the nearest one
ToDouble(num, den) ==
    IF num = 0 THEN [m |-> <<>>, e |-> 0]
    ELSE LET T  == Scale(num, den) + MantissaBits + 1
             v0 == num * 2^(T % LimbBits)
             d  == DivLimbs(v0 % den, den, T \div LimbBits)
             Q  == d.q \o <<v0 \div den>>
             M  == IF d.rem = 0 THEN MulSmall(Q, 2) ELSE Inc(MulSmall(Q, 2))
         IN  RoundNearestEven(M, 0 - T - 1)

\* 1.0 - x, 0 <= x <= 1
OneMinus(x) ==
    IF x.m = <<>> THEN [m |-> <<1>>, e |-> 0]
    ELSE RoundNearestEven(Sub(PowerOfTwo(0 - x.e), x.m), x.e)

\* n * x, the size_t n converted exactly
Times(n, x) == RoundNearestEven(MulSmall(x.m, n), x.e)

\* static_cast<size_t>(x), x >= 0 and small
Truncate(x) ==
    LET v == IF x.e >= 0 THEN x.m ELSE ShiftRight(x.m, 0 - x.e)
    IN  (Limb(v, 1) + Base * Limb(v, 2)) * (IF x.e >= 0 THEN 2^(x.e) ELSE 1)

\* static_cast<size_t>(n * (1.0 - test_fraction))
SplitPoint(n, fraction) ==
    Truncate(Times(n, OneMinus(ToDouble(fraction[1], fraction[2]))))

(***************************************************************************)
(* Dataset splitter.                                                       *)
(***************************************************************************)
RECURSIVE Orders(_)
Orders(S) ==
    IF S = {} THEN {<<>>}
    ELSE UNION {{<<x>> \o p : p \in Orders(S \ {x})} : x \in S}

\* what std::shuffle may leave in indices: any order of 0 .. n-1
Shuffles(n) == Orders(0..(n - 1))

\* dataset.numeric_labels[idx]; a read past the end yields whatever is there
NumericLabelAt(d, idx, garbage) ==
    IF idx < Len(d.numeric_labels) THEN d.numeric_labels[idx + 1] ELSE garbage

\* a split that starts the test set one entry late
TestingIndicesOffByOne(perm, sp) == SubSeq(perm, sp + 2, Len(perm))

\* the entries i < split_point of indices
TrainingIndices(perm, sp) == SubSeq(perm, 1, sp)

\* the entries i >= split_point of indices
TestingIndices(perm, sp) == SubSeq(perm, sp + 1, Len(perm))

ImagesAt(d, idxs) == [k \in 1..Len(idxs) |-> d.images[idxs[k] + 1]]

LabelsAt(d, idxs, garbage) ==
    [k \in 1..Len(idxs) |-> NumericLabelAt(d, idxs[k], garbage)]

\* values an out-of-bounds read of numeric_labels may return
Garbage == {0, 7}

(***************************************************************************)
(* Initial states.                                                         *)
(***************************************************************************)
\* an output file left by an earlier run
StaleFile ==
    [exists |-> TRUE,
     data   |-> Serialize([images         |-> <<[src |-> <<<<"o">>, <<"o">>>>,
                                                 nr |-> 1, nc |-> 1]>>,
                           labels         |-> <<<<"o">>>>,
                           numeric_labels |-> <<0>>])]

Argv3s == {<<"6", "4">>, <<"8", "x">>, <<"x">>}

\* test_fraction's default value 0.05
DefaultTestFraction == <<1, 20>>

\* what no input decides
InitRest ==
    /\ g_terminate_flag = FALSE
    /\ handler_installed = FALSE
    /\ exc = "none"
    /\ exit_code = -1
    /\ image_size = 0
    /\ image_listing = <<>>
    /\ i = 0
    /\ img = NoImage
    /\ dataset = EmptyDataset
    /\ indices = <<>>
    /\ split_point = 0
    /\ training_images = <<>>
    /\ training_labels = <<>>
    /\ testing_images = <<>>
    /\ testing_labels = <<>>

\* inputs the run never reads are left at one value
ReadInputs(a, v, r, t) ==
    /\ (a # 4 \/ v # <<"6", "4">> \/ ~r) => t = <<>>
    /\ (a # 4 \/ stol(v) < 0) => r
    /\ a # 4 => v = <<"6", "4">>

\* the program started on some command line, directory tree and output file
Init ==
    /\ pc = "main"
    /\ argc \in {2, 4}
    /\ argv3 \in Argv3s
    /\ root_exists \in BOOLEAN
    /\ file = StaleFile
    /\ test_fraction = DefaultTestFraction
    /\ \E order \in DirOrders :
         \E counts \in [1..Len(order) -> 0..MaxFiles] :
           /\ SumTo(counts, Len(order)) <= MaxFiles
           /\ \E kinds \in [1..SumTo(counts, Len(order)) -> FileKinds] :
                tree = MakeTree(order, counts, kinds)
    /\ ReadInputs(argc, argv3, root_exists, tree)
    /\ InitRest

(***************************************************************************)
(* The interrupt handler.                                                  *)
(***************************************************************************)
signal_handler ==
    /\ handler_installed
    /\ pc # "exit"
    /\ g_terminate_flag' = TRUE
    /\ UNCHANGED <<argc, argv3, root_exists, tree, file, handler_installed,
                   pc, exc, exit_code, image_size, image_listing, i, img, dataset,
                   test_fraction, indices, split_point,
                   training_images, training_labels, testing_images, testing_labels>>

(***************************************************************************)
(* main, up to the call of create_imagenet_dataset.                        *)
(***************************************************************************)
\* a usage error that returns 0
MainArgsUsageReturnsZero ==
    /\ pc = "main"
    /\ handler_installed' = TRUE
    /\ IF argc # 4
       THEN pc' = "exit" /\ exit_code' = 0 /\ UNCHANGED <<exc, image_size>>
       ELSE IF stol(argv3) < 0
       THEN pc' = "catch" /\ exc' = "invalid_argument"
            /\ UNCHANGED <<exit_code, image_size>>
       ELSE pc' = "scan" /\ image_size' = stol(argv3) /\ UNCHANGED <<exc, exit_code>>
    /\ UNCHANGED <<argc, argv3, root_exists, tree, file, g_terminate_flag,
                   image_listing, i, img, dataset, test_fraction, indices, split_point,
                   training_images, training_labels, testing_images, testing_labels>>

MainArgs ==
    /\ pc = "main"
    /\ handler_installed' = TRUE
    /\ IF argc # 4
       THEN pc' = "exit" /\ exit_code' = 1 /\ UNCHANGED <<exc, image_size>>
       ELSE IF stol(argv3) < 0
       THEN pc' = "catch" /\ exc' = "invalid_argument"
            /\ UNCHANGED <<exit_code, image_size>>
       ELSE pc' = "scan" /\ image_size' = stol(argv3) /\ UNCHANGED <<exc, exit_code>>
    /\ UNCHANGED <<argc, argv3, root_exists, tree, file, g_terminate_flag,
                   image_listing, i, img, dataset, test_fraction, indices, split_point,
                   training_images, training_labels, testing_images, testing_labels>>

(***************************************************************************)
(* create_imagenet_dataset.                                                *)
(***************************************************************************)
\* a scan whose empty result is not checked
ScanNoEmptyCheck ==
    /\ pc = "scan"
    /\ IF ~root_exists
       THEN pc' = "catch" /\ exc' = "dir_not_found"
            /\ UNCHANGED <<image_listing, dataset, i>>
       ELSE /\ image_listing' = get_imagenet_listing(tree)
            /\ pc' = "for_test" /\ dataset' = EmptyDataset /\ i' = 0
            /\ UNCHANGED exc
    /\ UNCHANGED <<argc, argv3, root_exists, tree, file, g_terminate_flag,
                   handler_installed, exit_code, image_size, img,
                   test_fraction, indices, split_point,
                   training_images, training_labels, testing_images, testing_labels>>

\* the scan, the check of its result and the empty dataset
Scan ==
    /\ pc = "scan"
    /\ IF ~root_exists
       THEN pc' = "catch" /\ exc' = "dir_not_found"
            /\ UNCHANGED <<image_listing, dataset, i>>
       ELSE /\ image_listing' = get_imagenet_listing(tree)
            /\ IF image_listing' = <<>>
               THEN pc' = "catch" /\ exc' = "no_images" /\ UNCHANGED <<dataset, i>>
               ELSE pc' = "for_test" /\ dataset' = EmptyDataset /\ i' = 0
                    /\ UNCHANGED exc
    /\ UNCHANGED <<argc, argv3, root_exists, tree, file, g_terminate_flag,
                   handler_installed, exit_code, image_size, img,
                   test_fraction, indices, split_point,
                   training_images, training_labels, testing_images, testing_labels>>

\* a loop condition that does not look at the flag
ForTestNoPoll ==
    /\ pc = "for_test"
    /\ pc' = IF i < Len(image_listing) THEN "load" ELSE "serialize"
    /\ UNCHANGED <<argc, argv3, root_exists, tree, file, g_terminate_flag,
                   handler_installed, exc, exit_code, image_size, image_listing, i, img,
                   dataset, test_fraction, indices, split_point,
                   training_images, training_labels, testing_images, testing_labels>>

\* a loop that leaves the function when it sees the flag
ForTestCancelReturns ==
    /\ pc = "for_test"
    /\ pc' = IF g_terminate_flag THEN "load_split"
             ELSE IF i < Len(image_listing) THEN "load" ELSE "serialize"
    /\ UNCHANGED <<argc, argv3, root_exists, tree, file, g_terminate_flag,
                   handler_installed, exc, exit_code, image_size, image_listing, i, img,
                   dataset, test_fraction, indices, split_point,
                   training_images, training_labels, testing_images, testing_labels>>

\* i < image_listing.size() && !g_terminate_flag.load()
ForTest ==
    /\ pc = "for_test"
    /\ pc' = IF i < Len(image_listing) /\ ~g_terminate_flag THEN "load" ELSE "serialize"
    /\ UNCHANGED <<argc, argv3, root_exists, tree, file, g_terminate_flag,
                   handler_installed, exc, exit_code, image_size, image_listing, i, img,
                   dataset, test_fraction, indices, split_point,
                   training_images, training_labels, testing_images, testing_labels>>

\* a loop body that appends the labels before it loads the image
LoadImageLabelsFirst ==
    /\ pc = "load"
    /\ LET info == image_listing[i + 1]
       IN  IF Decodable(tree, info.filename)
           THEN /\ img' = load_and_resize_image(info.filename, image_size, image_size)
                /\ pc' = "push_images"
                /\ UNCHANGED <<i, dataset>>
           ELSE /\ dataset' = [dataset EXCEPT !.labels = Append(@, info.label)]
                /\ i' = i + 1
                /\ pc' = "for_test"
                /\ UNCHANGED img
    /\ UNCHANGED <<argc, argv3, root_exists, tree, file, g_terminate_flag,
                   handler_installed, exc, exit_code, image_size, image_listing,
                   test_fraction, indices, split_point,
                   training_images, training_labels, testing_images, testing_labels>>

\* a loop body whose failure ends the loop
LoadImageFailureBreaks ==
    /\ pc = "load"
    /\ LET info == image_listing[i + 1]
       IN  IF Decodable(tree, info.filename)
           THEN /\ img' = load_and_resize_image(info.filename, image_size, image_size)
                /\ pc' = "push_images"
                /\ UNCHANGED i
           ELSE /\ i' = i + 1
                /\ pc' = "serialize"
                /\ UNCHANGED img
    /\ UNCHANGED <<argc, argv3, root_exists, tree, file, g_terminate_flag,
                   handler_installed, exc, exit_code, image_size, image_listing,
                   dataset, test_fraction, indices, split_point,
                   training_images, training_labels, testing_images, testing_labels>>

\* the load of record i; a failure is caught, logged, and the loop goes on
LoadImage ==
    /\ pc = "load"
    /\ LET info == image_listing[i + 1]
       IN  IF Decodable(tree, info.filename)
           THEN /\ img' = load_and_resize_image(info.filename, image_size, image_size)
                /\ pc' = "push_images"
                /\ UNCHANGED i
           ELSE /\ i' = i + 1
                /\ pc' = "for_test"
                /\ UNCHANGED img
    /\ UNCHANGED <<argc, argv3, root_exists, tree, file, g_terminate_flag,
                   handler_installed, exc, exit_code, image_size, image_listing,
                   dataset, test_fraction, indices, split_point,
                   training_images, training_labels, testing_images, testing_labels>>

PushImage ==
    /\ pc = "push_images"
    /\ dataset' = [dataset EXCEPT !.images = Append(@, img)]
    /\ pc' = "push_labels"
    /\ UNCHANGED <<argc, argv3, root_exists, tree, file, g_terminate_flag,
                   handler_installed, exc, exit_code, image_size, image_listing, i, img,
                   test_fraction, indices, split_point,
                   training_images, training_labels, testing_images, testing_labels>>

PushLabel ==
    /\ pc = "push_labels"
    /\ dataset' = [dataset EXCEPT !.labels = Append(@, image_listing[i + 1].label)]
    /\ pc' = "push_numeric_labels"
    /\ UNCHANGED <<argc, argv3, root_exists, tree, file, g_terminate_flag,
                   handler_installed, exc, exit_code, image_size, image_listing, i, img,
                   test_fraction, indices, split_point,
                   training_images, training_labels, testing_images, testing_labels>>

\* the last push_back, the progress line and ++i
PushNumericLabel ==
    /\ pc = "push_numeric_labels"
    /\ dataset' = [dataset EXCEPT
                      !.numeric_labels = Append(@, image_listing[i + 1].numeric_label)]
    /\ i' = i + 1
    /\ pc' = "for_test"
    /\ UNCHANGED <<argc, argv3, root_exists, tree, file, g_terminate_flag,
                   handler_installed, exc, exit_code, image_size, image_listing, img,
                   test_fraction, indices, split_point,
                   training_images, training_labels, testing_images, testing_labels>>

\* the write of the three vectors; a failed write leaves the old file or a cut one
SerializeDataset ==
    /\ pc = "serialize"
    /\ \/ /\ file' = [exists |-> TRUE, data |-> Serialize(dataset)]
          /\ pc' = "load_split"
          /\ UNCHANGED exc
       \/ /\ file' \in {file, [exists |-> TRUE, data |-> <<>>]}
          /\ exc' = "serialization_error"
          /\ pc' = "catch"
    /\ UNCHANGED <<argc, argv3, root_exists, tree, g_terminate_flag,
                   handler_installed, exit_code, image_size, image_listing, i, img,
                   dataset, test_fraction, indices, split_point,
                   training_images, training_labels, testing_images, testing_labels>>

(***************************************************************************)
(* load_stable_imagenet_1k: the read, the shuffle and the split.  Nothing  *)
(* in it looks at the flag, so it is one step.  A read of numeric_labels   *)
(* past its end is undefined: the process dies, or the read yields some    *)
(* value.                                                                  *)
(***************************************************************************)
LoadStableImagenet ==
    /\ pc = "load_split"
    /\ \E r \in {Deserialize(file)} :
         \/ /\ exc' = "serialization_error"
            /\ pc' = "catch"
            /\ UNCHANGED <<dataset, indices, split_point, training_images,
                           training_labels, testing_images, testing_labels>>
         \/ /\ r.ok
            /\ dataset' = r.dataset
            /\ \E sp \in {SplitPoint(Len(r.dataset.images), test_fraction)} :
                 /\ split_point' = sp
                 /\ \E perm \in Shuffles(Len(r.dataset.images)) :
                      \E train \in {TrainingIndices(perm, sp)},
                         test \in {TestingIndices(perm, sp)},
                         garbage \in Garbage :
                        /\ Len(perm) <= Len(r.dataset.numeric_labels) => garbage = 0
                        /\ indices' = perm
                        /\ training_images' = ImagesAt(r.dataset, train)
                        /\ training_labels' = LabelsAt(r.dataset, train, garbage)
                        /\ testing_images' = ImagesAt(r.dataset, test)
                        /\ testing_labels' = LabelsAt(r.dataset, test, garbage)
            /\ pc' \in IF Len(r.dataset.images) <= Len(r.dataset.numeric_labels)
                       THEN {"loaded"} ELSE {"loaded", "crashed"}
            /\ UNCHANGED exc
    /\ UNCHANGED <<argc, argv3, root_exists, tree, file, g_terminate_flag,
                   handler_installed, exit_code, image_size, image_listing, i, img,
                   test_fraction>>

(***************************************************************************)
(* main, after the dataset is loaded.                                      *)
(***************************************************************************)
\* the preview: the window may fail to open; otherwise main returns 0
Preview ==
    /\ pc = "loaded"
    /\ \/ exc' = "gui_error" /\ pc' = "catch" /\ UNCHANGED exit_code
       \/ exit_code' = 0 /\ pc' = "exit" /\ UNCHANGED exc
    /\ UNCHANGED <<argc, argv3, root_exists, tree, file, g_terminate_flag,
                   handler_installed, image_size, image_listing, i, img, dataset,
                   test_fraction, indices, split_point,
                   training_images, training_labels, testing_images, testing_labels>>

\* catch (std::exception& e)
MainCatch ==
    /\ pc = "catch"
    /\ exit_code' = 1
    /\ pc' = "exit"
    /\ UNCHANGED <<argc, argv3, root_exists, tree, file, g_terminate_flag,
                   handler_installed, exc, image_size, image_listing, i, img, dataset,
                   test_fraction, indices, split_point,
                   training_images, training_labels, testing_images, testing_labels>>

(***************************************************************************)
(* The program.                                                            *)
(***************************************************************************)
Next ==
    \/ signal_handler
    \/ MainArgs
    \/ Scan
    \/ ForTest
    \/ LoadImage
    \/ PushImage
    \/ PushLabel
    \/ PushNumericLabel
    \/ SerializeDataset
    \/ LoadStableImagenet
    \/ Preview
    \/ MainCatch

Spec == Init /\ [][Next]_vars

\* the steps of create_imagenet_dataset from its loop on: the loop test, the
\* loop body and the write.  The thread that runs them keeps running.
BuilderStep ==
    \/ ForTest
    \/ LoadImage
    \/ PushImage
    \/ PushLabel
    \/ PushNumericLabel
    \/ SerializeDataset

(***************************************************************************)
(* The same program with the choice of its inputs made by a first step,    *)
(* and the fairness of the thread that runs create_imagenet_dataset.       *)
(***************************************************************************)
BootInit ==
    /\ pc = "boot"
    /\ argc = 4
    /\ argv3 = <<"6", "4">>
    /\ root_exists = TRUE
    /\ tree = <<>>
    /\ file = StaleFile
    /\ test_fraction = DefaultTestFraction
    /\ InitRest

\* the program is started: main is entered with some inputs
Launch ==
    /\ pc = "boot"
    /\ pc' = "main"
    /\ argc' \in {2, 4}
    /\ argv3' \in Argv3s
    /\ root_exists' \in BOOLEAN
    /\ \E order \in DirOrders :
         \E counts \in [1..Len(order) -> 0..MaxFiles] :
           /\ SumTo(counts, Len(order)) <= MaxFiles
           /\ \E kinds \in [1..SumTo(counts, Len(order)) -> FileKinds] :
                tree' = MakeTree(order, counts, kinds)
    /\ ReadInputs(argc', argv3', root_exists', tree')
    /\ UNCHANGED <<file, g_terminate_flag, handler_installed, exc, exit_code,
                   image_size, image_listing, i, img, dataset, test_fraction,
                   indices, split_point,
                   training_images, training_labels, testing_images, testing_labels>>

FairNext ==
    \/ Launch
    \/ Next

FairSpec == BootInit /\ [][FairNext]_vars /\ WF_vars(BuilderStep)

(***************************************************************************)
(* load_stable_imagenet_1k on its own, called on any dataset file with any *)
(* test_fraction in [0, 1].                                                *)
(***************************************************************************)
TestFractions == {<<0, 1>>, <<1, 20>>, <<2, 5>>, <<4, 5>>, <<1, 1>>}

\* the k-th image of a dataset file
SampleImage(k) == [src |-> <<<<"d">>, [j \in 1..k |-> "a"]>>, nr |-> 8, nc |-> 8]

\* numeric labels as the builder writes them: in ascending order
SampleLabels(n, zeros) == [k \in 1..n |-> IF k <= zeros THEN 0 ELSE 1]

\* a file of ni images, nl labels and nn numeric labels
SampleFile(ni, nl, nn, zeros) ==
    SerializeImages([k \in 1..ni |-> SampleImage(k)])
        \o SerializeStrings([k \in 1..nl |-> <<"x">>])
        \o SerializeNumbers(SampleLabels(nn, zeros))

LoadInit ==
    /\ pc = "load_split"
    /\ argc = 4
    /\ argv3 = <<"6", "4">>
    /\ root_exists = TRUE
    /\ tree = <<>>
    /\ test_fraction \in TestFractions
    /\ \E ni \in 0..MaxN, dl \in {-1, 0, 1}, dn \in {-1, 0, 1} :
         /\ ni + dl >= 0
         /\ ni + dn >= 0
         /\ \E zeros \in 0..(ni + dn), cut \in {0, 1} :
              \E data \in {SampleFile(ni, ni + dl, ni + dn, zeros)} :
                file = [exists |-> TRUE,
                        data   |-> SubSeq(data, 1, Len(data) - cut)]
    /\ InitRest

LoadNext == LoadStableImagenet

LoadSpec == LoadInit /\ [][LoadNext]_vars

(***************************************************************************)
(* Properties.                                                             *)
(***************************************************************************)
InLoop == pc \in {"for_test", "load", "push_images", "push_labels", "push_numeric_labels"}

\* the dataset made of the decodable ones among the first n scanned records
RECURSIVE Accumulated(_)
Accumulated(n) ==
    IF n = 0 THEN EmptyDataset
    ELSE LET d    == Accumulated(n - 1)
             info == image_listing[n]
         IN  IF Decodable(tree, info.filename)
             THEN [images         |-> Append(d.images,
                                             [src |-> info.filename,
                                              nr  |-> image_size,
                                              nc  |-> image_size]),
                   labels         |-> Append(d.labels, info.label),
                   numeric_labels |-> Append(d.numeric_labels, info.numeric_label)]
             ELSE d

\* some scanned record before position n cannot be decoded
FailedBefore(n) ==
    \E k \in 1..n : k <= Len(image_listing) /\ ~Decodable(tree, image_listing[k].filename)

\* C1: at every boundary between two iterations of the per-image loop, and when
\* the dataset is serialized, images, labels and numeric_labels have the same
\* length and the three entries at each index come from one scanned record.
C1_ParallelArrays ==
    pc \in {"for_test", "serialize"} =>
        /\ Len(dataset.labels) = Len(dataset.images)
        /\ Len(dataset.numeric_labels) = Len(dataset.images)
        /\ \A k \in 1..Len(dataset.images) :
               \E j \in 1..Len(image_listing) :
                   /\ dataset.images[k].src = image_listing[j].filename
                   /\ dataset.labels[k] = image_listing[j].label
                   /\ dataset.numeric_labels[k] = image_listing[j].numeric_label

\* a cancelled run at the serialization, one record loaded and one failed
C1_Witness ==
    /\ pc = "serialize"
    /\ g_terminate_flag
    /\ i < Len(image_listing)
    /\ Len(dataset.images) >= 1
    /\ FailedBefore(i)

\* C2: a record that fails to load does not end the loop, and a run that is not
\* cancelled writes exactly the records that load, in scan order.
C2_FailedLoadSkipped ==
    (pc = "load_split" /\ ~g_terminate_flag) =>
        /\ i = Len(image_listing)
        /\ file = [exists |-> TRUE,
                   data   |-> Serialize(Accumulated(Len(image_listing)))]

\* a written dataset with a sample scanned after a record that failed
C2_Witness ==
    /\ pc = "load_split"
    /\ ~g_terminate_flag
    /\ Len(image_listing) = 3
    /\ ~Decodable(tree, image_listing[2].filename)
    /\ Decodable(tree, image_listing[1].filename)
    /\ Decodable(tree, image_listing[3].filename)
    /\ dataset.numeric_labels = <<0, 1>>

\* C3: the loop body is entered only from the loop test, with the flag read as
\* clear; and once the flag is set it stays set, the iteration in progress may
\* finish, and the loop test then leaves the loop without loading another record.
C3_StopsBeforeNextRecord ==
    [][/\ (pc' = "load" /\ pc # "load") => (pc = "for_test" /\ ~g_terminate_flag)
       /\ (g_terminate_flag /\ InLoop) =>
            /\ g_terminate_flag'
            /\ i' \in {i, i + 1}
            /\ pc = "for_test" =>
                 /\ pc' \in {"for_test", "serialize"}
                 /\ i' = i
                 /\ dataset' = dataset]_vars

\* the loop left with records still to load
C3_Witness ==
    /\ pc = "serialize"
    /\ g_terminate_flag
    /\ i >= 1
    /\ i < Len(image_listing)

\* the serialization has been executed
SerializeRan ==
    \/ pc \in {"load_split", "loaded", "crashed"}
    \/ pc \in {"catch", "exit"} /\ exc \in {"serialization_error", "gui_error"}
    \/ exit_code = 0

\* C4: a cancellation during the per-image loop is followed by the
\* serialization, and what is written is the dataset accumulated when the loop
\* was left: the decodable ones among the first i scanned records, in scan order.
C4_CancelledRunStillSaves ==
    /\ [](pc = "load_split" =>
            /\ dataset = Accumulated(i)
            /\ file = [exists |-> TRUE, data |-> Serialize(dataset)])
    /\ ((g_terminate_flag /\ InLoop) ~> SerializeRan)

\* a partial dataset written after a cancellation
C4_Witness ==
    /\ pc = "load_split"
    /\ g_terminate_flag
    /\ i < Len(image_listing)
    /\ Len(dataset.images) >= 1
    /\ file.data = Serialize(dataset)

\* the scan returns an empty listing
EmptyScan == root_exists /\ get_imagenet_listing(tree) = <<>>

\* C5: when the scan returns an empty listing the function throws before any
\* image is loaded and before the serialization: the output file is untouched.
C5_EmptyScanFailsFast ==
    EmptyScan =>
        /\ pc \in {"main", "scan", "catch", "exit"}
        /\ file = StaleFile
        /\ img = NoImage
        /\ dataset = EmptyDataset
        /\ (pc \in {"catch", "exit"} /\ argc = 4 /\ stol(argv3) >= 0) => exc = "no_images"

\* a tree with files, none of them a .jpg, scanned and rejected
C5_Witness ==
    /\ EmptyScan
    /\ pc = "exit"
    /\ exc = "no_images"
    /\ \E k \in 1..Len(tree) : tree[k].files # <<>>

\* the zero-based rank of a subdirectory name among the tree's names
Rank(name) == Cardinality({k \in 1..Len(tree) : StrLess(tree[k].name, name)})

\* C7: every record of the listing carries the zero-based rank of its class
\* subdirectory in ascending order of name, subdirectories without a
\* qualifying image counted.
C7_NumericLabelIsRank ==
    pc \notin {"main", "scan"} =>
        \A k \in 1..Len(image_listing) :
            image_listing[k].numeric_label = Rank(image_listing[k].filename[1])

\* a class whose label counts a subdirectory that holds no qualifying image
C7_Witness ==
    /\ pc = "for_test"
    /\ Len(tree) = 3
    /\ \E k \in 1..Len(image_listing) : image_listing[k].numeric_label = 2
    /\ \E k \in 1..Len(tree) :
           /\ Rank(tree[k].name) < 2
           /\ tree[k].files # <<>>
           /\ \A p \in 1..Len(tree[k].files) : ~IsJpg(tree[k].files[p].name)

\* the three vectors read from the file have one length
WellFormed(d) ==
    /\ Len(d.labels) = Len(d.images)
    /\ Len(d.numeric_labels) = Len(d.images)

Count(seq, v) == Cardinality({k \in 1..Len(seq) : seq[k] = v})

\* C8: after the split of a dataset of N samples every source index is in
\* exactly one of the two outputs, paired with its own numeric label.
C8_SplitComplete ==
    (pc = "loaded" /\ WellFormed(dataset)) =>
        LET out_images == training_images \o testing_images
            out_labels == training_labels \o testing_labels
        IN  /\ Len(training_images) + Len(testing_images) = Len(dataset.images)
            /\ Len(training_labels) = Len(training_images)
            /\ Len(testing_labels) = Len(testing_images)
            /\ \A idx \in 1..Len(dataset.images) :
                   /\ Count(out_images, dataset.images[idx]) = 1
                   /\ \A k \in 1..Len(out_images) :
                          out_images[k] = dataset.images[idx]
                              => out_labels[k] = dataset.numeric_labels[idx]
            /\ \A v \in 0..1 : Count(out_labels, v) = Count(dataset.numeric_labels, v)

\* a shuffled split with both outputs non-empty
C8_Witness ==
    /\ pc = "loaded"
    /\ WellFormed(dataset)
    /\ Len(dataset.images) = 5
    /\ Len(training_images) = 3
    /\ Len(testing_images) = 2
    /\ indices[1] = 4
    /\ training_labels # SubSeq(dataset.numeric_labels, 1, 3)

\* floor(n * (1 - num/den))
ExactSplitPoint(n, fraction) == (n * (fraction[2] - fraction[1])) \div fraction[2]

\* C9: the first floor(N * (1 - testFraction)) entries of the shuffled
\* permutation are the training set and the rest the test set, in shuffled
\* order; testFraction 0 leaves the test set empty, 1 the training set.
C9_SplitPointIsFloor ==
    (pc = "loaded" /\ WellFormed(dataset)) =>
        LET n  == Len(dataset.images)
            sp == ExactSplitPoint(n, test_fraction)
        IN  /\ Len(testing_images) = n - sp
            /\ training_images = ImagesAt(dataset, SubSeq(indices, 1, sp))
            /\ testing_images = ImagesAt(dataset, SubSeq(indices, sp + 1, n))
            /\ test_fraction = <<0, 1>> => testing_images = <<>>
            /\ test_fraction = <<1, 1>> => training_images = <<>>

\* C6: a file whose three vectors differ in length makes the load fail.
C6_LengthMismatchFails ==
    (pc # "load_split" /\ Deserialize(file).ok /\ ~WellFormed(Deserialize(file).dataset))
        => (pc = "catch" /\ exc = "serialization_error")

\* the dataset file is written and holds what was split
BuiltAndLoaded ==
    /\ file = [exists |-> TRUE, data |-> Serialize(dataset)]
    /\ Len(training_images) + Len(testing_images) = Len(dataset.images)
    /\ dataset = Accumulated(i)

\* C10: main returns 1 on a wrong argument count and whenever an exception
\* reaches its handler, and 0 only after the build, the load and the preview.
C10_ExitCodes ==
    pc = "exit" =>
        /\ exit_code \in {0, 1}
        /\ exit_code = 1 <=> (argc # 4 \/ exc # "none")
        /\ exit_code = 0 => BuiltAndLoaded
        /\ (argc = 4 /\ stol(argv3) < 0) => exit_code = 1
        /\ ~root_exists => exit_code = 1
        /\ EmptyScan => exit_code = 1

\* a complete run
C10_Witness ==
    /\ pc = "exit"
    /\ exit_code = 0
    /\ Len(training_images) = 2
    /\ Len(testing_images) = 1

====
